---------------------------- MODULE Spec2Model ----------------------------
(***************************************************************************)
(* mbwatch: the connection pool (imapidle.ConnectionPool), the IDLE driver *)
(* (imapidle.idle / watch) and the watcher supervisor                      *)
(* (mbwatch.watch_errors, start_watching, main).                           *)
(*                                                                         *)
(* Threads are "main" and the remote watchers.  Every thread has a program *)
(* counter pc[t]; a call of a pool method stores its return address in     *)
(* retpc[t] and the place an exception unwinds to in excpc[t].  A step     *)
(* that runs under the pool's RLock, or that touches no shared state, is   *)
(* one action; network I/O (connect, send, receive) is an action of its    *)
(* own whose outcome is chosen nondeterministically.                       *)
(***************************************************************************)
EXTENDS Naturals, Sequences, FiniteSets, TLC

\* ------------------------------------------------------------- bounds
MaxSessions == 3      \* sessions _connect may open in one run
MaxTag == 2           \* IDLE commands sent on one session
MaxQueue == 2         \* tasks waiting in the queue
MaxListing == 2       \* distinct listings of a cur/ directory

\* -------------------------------------------------- program constants
T_REFRESH == 1740     \* idle(con, timeout=29*60)
T_CLOSE == 3          \* close: con.sock.settimeout(3)

Watchers == {"w1", "w2"}
Threads == {"main"} \cup Watchers
Keys == {"k1", "k2"}  \* (host, port, user) of the configured IMAP stores
Sessions == 1..MaxSessions
NoCon == 0            \* None
NoKey == "nokey"      \* absent from _con_key_map

\* The sync map of the dispatcher's runs: one channel, two mailboxes, each
\* a pair of endpoints (store, mailbox, path).  m1 and m2 are Maildir
\* endpoints, i1 is an IMAP endpoint, and i2 is an IMAP endpoint unless the
\* configuration makes the second pair's master a Maildir store as well.
Endpoints == {"i1", "m1", "i2", "m2"}
SyncMapKeys == <<"i1", "m1", "i2", "m2">>     \* the dict's iteration order
PartnerSelf(e) == e
Partner(e) == CASE e = "i1" -> "m1" [] e = "m1" -> "i1"
                [] e = "i2" -> "m2" [] e = "m2" -> "i2"
WatchedEndpoint(w) == IF w = "w1" THEN "i1" ELSE "i2"
NoListing == 0        \* dircache.get(cur) is None
Listings == 1..MaxListing

VARIABLES
  busy,          \* ConnectionPool._busy: key -> list of sessions
  released,      \* ConnectionPool._released: key -> list of sessions
  con_key_map,   \* ConnectionPool._con_key_map: session -> key (NoKey: absent)
  nsess,         \* sessions opened so far; the next one is nsess + 1
  idling,        \* imap.idling
  terminating,   \* imap.terminating
  timeout,       \* socket timeout of the session, 0 = none set
  tagnum,        \* imaplib's tag counter of the session (IDLE and LOGOUT tags)
  sent,          \* the last line written to the session's socket
  pc, retpc, excpc,
  con,           \* the thread's `con`
  imap,          \* the local `imap` of get_or_create_connection / reconnect
  key,           \* the local `key` of the pool method in progress
  exc,           \* the exception the thread last raised ("none")
  connected,     \* watch_errors: connected
  tag,           \* idle: tag
  text,          \* idle: text
  todo,          \* populate_stores_w_mailboxes: stores not enumerated yet
  snapshot,      \* close_all: list(self._con_key_map) still to close
  tasks,         \* the task queue
  op,            \* harness: the pool method in progress or just ended
  lastReleased,  \* argument of the release call that returned just before
                 \* the get_or_create_connection call now starting
  seen,          \* an EXISTS line was received in this IDLE iteration
  timedout,      \* the wait-for-change read of this iteration timed out
  stopped,       \* the session was marked terminating while the watcher was
                 \* blocked in a wait-for-continuation / wait-for-change read
  how,           \* how the watcher's last watch() call ended: "" (it has
                 \* not), "returned", "raised"
  maildirs,      \* configuration: the endpoints whose store is a Maildir
  watched,       \* configuration: the watchers start_watching starts, one
                 \* per IMAP endpoint of the sync map
  running,       \* task_loop: the SyncTask whose sync command runs
  dircache,      \* task_loop: dircache, Maildir endpoint -> listing of cur/
  listing,       \* the file system: Maildir endpoint -> listing of cur/
  sysexit,       \* code of the SystemExit that ended task_loop ("": none)
  sinceScan,     \* what happened since the last LocalMailTask was handled:
                 \* "" (none was handled yet), "quiet", "synced" (SyncTasks
                 \* were handled, no listing changed), "changed"
  lastScan,      \* sinceScan when the last LocalMailTask was handled, and
                 \* whether it put a SyncTask
  pending,       \* history, Maildir endpoint -> "yes": its listing changed
                 \* and no sync command covering its pair has started
                 \* since; "no"; "off": the history is not kept in this run
  channels,      \* the channels, an OrderedDict: list of channel records
  mailboxes,     \* store['mailboxes'] of every store
  py37,          \* the interpreter is Python 3.7 or later
  syncmap,       \* get_syncmap: syncmap
  raised,        \* the exception get_syncmap raised ("": none)
  chidx,         \* get_syncmap: position of the loop over the channels
  syncall,       \* main: the tuples of syncall
  box,           \* get_syncmap: box, a normalized mailbox name
  selected,      \* get_syncmap: the tuple of box was appended to pairs
  mpc,           \* position of main in get_channels / get_syncmap
  proto          \* the IDLE exchange of every session: the driver's last
                 \* step in it ("": none yet, "IDLE" sent, "DONE" sent,
                 \* tagged "OK" received) and the tag of its IDLE command

poolVars == <<busy, released, con_key_map>>
sessVars == <<nsess, idling, terminating, timeout, tagnum, sent>>
callVars == <<pc, retpc, excpc, con, imap, key, exc>>
idleVars == <<connected, tag, text>>
mainVars == <<todo, snapshot>>
ghostVars == <<op, lastReleased, seen, timedout, stopped, how>>
mapVars == <<channels, mailboxes, py37, syncmap, raised, chidx, syncall,
             box, selected, mpc>>
taskVars == <<maildirs, watched, running, dircache, listing, sysexit, sinceScan,
              lastScan, pending>>
loopVars == <<taskVars, mapVars, proto>>
vars == <<poolVars, sessVars, callVars, idleVars, mainVars, tasks, ghostVars,
          loopVars>>

Maildirs == maildirs           \* 'maildirstore' in stores[stname]

\* ------------------------------------------------------------ helpers
InSeq(x, q) == \E i \in 1..Len(q) : q[i] = x
Last(q) == q[Len(q)]
Front(q) == SubSeq(q, 1, Len(q) - 1)
Occurrences(x, q) == Cardinality({i \in 1..Len(q) : q[i] = x})

\* list.remove(x): drops the first occurrence of x
ListRemove(q, x) ==
  LET i == CHOOSE j \in 1..Len(q) : q[j] = x /\ \A l \in 1..(j - 1) : q[l] # x
  IN SubSeq(q, 1, i - 1) \o SubSeq(q, i + 1, Len(q))

Pool == [busy |-> busy, released |-> released, map |-> con_key_map]

SetPool(P) ==
  /\ busy' = P.busy
  /\ released' = P.released
  /\ con_key_map' = P.map

Registered(s) == s # NoCon /\ con_key_map[s] # NoKey

\* ConnectionPool.count
Count == Cardinality({s \in Sessions : con_key_map[s] # NoKey})

\* an add that records the key and forgets the busy list
AddConnectionMapOnly(P, c, k) == [P EXCEPT !.map[c] = k]

\* ConnectionPool._add_connection
AddConnection(P, c, k) ==
  [P EXCEPT !.busy[k] = Append(@, c), !.map[c] = k]

\* a removal that forgets the busy / released lists
RemoveConnectionMapOnly(P, c) == [P EXCEPT !.map[c] = NoKey]

\* a removal that drops every session of c's key from the lists
RemoveConnectionWholeKey(P, c) ==
  [busy |-> [P.busy EXCEPT ![P.map[c]] = <<>>],
   released |-> [P.released EXCEPT ![P.map[c]] = <<>>],
   map |-> [P.map EXCEPT ![c] = NoKey]]

\* ConnectionPool._remove_connection, for a session c present in the map
RemoveConnection(P, c) ==
  LET k == P.map[c]
  IN [busy |-> IF ~InSeq(c, P.released[k]) /\ InSeq(c, P.busy[k])
               THEN [P.busy EXCEPT ![k] = ListRemove(@, c)]
               ELSE P.busy,
      released |-> IF InSeq(c, P.released[k])
                   THEN [P.released EXCEPT ![k] = ListRemove(@, c)]
                   ELSE P.released,
      map |-> [P.map EXCEPT ![c] = NoKey]]

\* a thread returns from / raises out of the pool method it is in; the
\* method's locals go with its frame
Return(t) ==
  /\ pc' = [pc EXCEPT ![t] = retpc[t]]
  /\ imap' = [imap EXCEPT ![t] = NoCon]
  /\ key' = [key EXCEPT ![t] = "k1"]
Raise(t, e) ==
  /\ pc' = [pc EXCEPT ![t] = excpc[t]]
  /\ exc' = [exc EXCEPT ![t] = e]
  /\ imap' = [imap EXCEPT ![t] = NoCon]
  /\ key' = [key EXCEPT ![t] = "k1"]

\* a thread calls a pool method: where it starts, returns to and unwinds to
Call(t, name, ret, exn) ==
  /\ pc' = [pc EXCEPT ![t] = name]
  /\ retpc' = [retpc EXCEPT ![t] = ret]
  /\ excpc' = [excpc EXCEPT ![t] = exn]

\* exceptions _connect lets out: a socket or TLS error, an abort whose
\* message holds 'EOF' (the server hung up during the greeting), a failed LOGIN
ConnectErrors == {"socket.error", "abortEOF", "IMAP4.error"}

\* ------------------------------------------------- ConnectionPool steps

\* a pop that leaves the list as it was
PopKept(q) == q

\* list.pop(): the list after its last element was taken
Pop(q) == Front(q)

\* get_or_create_connection, the `with self.lock` block: reuse a released
\* session of the key (LIFO) or go on to open a new one
GocLock(t) ==
  /\ pc[t] = "goc_lock"
  /\ IF released[key[t]] # <<>>
     THEN /\ released' = [released EXCEPT ![key[t]] = Pop(@)]
          /\ busy' = [busy EXCEPT ![key[t]] = Append(@, Last(released[key[t]]))]
          /\ con' = [con EXCEPT ![t] = Last(released[key[t]])]
          /\ Return(t)
     ELSE /\ pc' = [pc EXCEPT ![t] = "goc_connect"]
          /\ UNCHANGED <<released, busy, imap, con, key>>
  /\ lastReleased' = NoCon
  /\ UNCHANGED <<loopVars, con_key_map, sessVars, retpc, excpc, exc, idleVars,
                 mainVars, tasks, op, seen, timedout, stopped, how>>

\* _connect: open, STARTTLS, LOGIN.  A new session starts with idling and
\* terminating false.
Connect(t) ==
  /\ pc[t] \in {"goc_connect", "rc_connect"}
  /\ \/ /\ nsess < MaxSessions
        /\ nsess' = nsess + 1
        /\ imap' = [imap EXCEPT ![t] = nsess + 1]
        /\ pc' = [pc EXCEPT ![t] = IF pc[t] = "goc_connect" THEN "goc_add"
                                                           ELSE "rc_commit"]
        /\ UNCHANGED <<exc, key>>
     \/ /\ \E e \in ConnectErrors : Raise(t, e)
        /\ UNCHANGED nsess
  /\ UNCHANGED <<loopVars, poolVars, idling, terminating, timeout, tagnum, sent, retpc,
                 excpc, con, idleVars, mainVars, tasks, ghostVars>>

\* get_or_create_connection: self._add_connection(imap, key); return imap
GocAdd(t) ==
  /\ pc[t] = "goc_add"
  /\ SetPool(AddConnection(Pool, imap[t], key[t]))
  /\ con' = [con EXCEPT ![t] = imap[t]]
  /\ Return(t)
  /\ UNCHANGED <<loopVars, sessVars, retpc, excpc, exc, idleVars, mainVars, tasks,
                 ghostVars>>

\* reconnect: key = self._con_key_map[con], read outside the lock
RcKey(t) ==
  /\ pc[t] = "rc_key"
  /\ IF Registered(con[t])
     THEN /\ key' = [key EXCEPT ![t] = con_key_map[con[t]]]
          /\ pc' = [pc EXCEPT ![t] = "rc_connect"]
          /\ UNCHANGED <<exc, imap>>
     ELSE Raise(t, "KeyError")
  /\ UNCHANGED <<loopVars, poolVars, sessVars, retpc, excpc, con, idleVars, mainVars,
                 tasks, ghostVars>>

\* reconnect, the `with self.lock` block: add the new session, then remove
\* the old one; the removal raises KeyError when the old one is gone
RcCommit(t) ==
  /\ pc[t] = "rc_commit"
  /\ IF Registered(con[t])
     THEN /\ SetPool(RemoveConnection(AddConnection(Pool, imap[t], key[t]), con[t]))
          /\ con' = [con EXCEPT ![t] = imap[t]]
          /\ Return(t)
          /\ UNCHANGED exc
     ELSE /\ SetPool(AddConnection(Pool, imap[t], key[t]))
          /\ Raise(t, "KeyError")
          /\ UNCHANGED con
  /\ UNCHANGED <<loopVars, sessVars, retpc, excpc, idleVars, mainVars, tasks, ghostVars>>

\* release: self._released[key].append(self._busy[key].pop())
Release(t) ==
  /\ pc[t] = "release"
  /\ IF ~Registered(con[t])
     THEN /\ Raise(t, "KeyError")
          /\ UNCHANGED <<poolVars, lastReleased>>
     ELSE LET k == con_key_map[con[t]]
          IN IF busy[k] = <<>>
             THEN /\ Raise(t, "IndexError")
                  /\ UNCHANGED <<poolVars, lastReleased>>
             ELSE /\ released' = [released EXCEPT ![k] = Append(@, Last(busy[k]))]
                  /\ busy' = [busy EXCEPT ![k] = Front(@)]
                  /\ lastReleased' = con[t]
                  /\ Return(t)
                  /\ UNCHANGED <<con_key_map, exc>>
  /\ UNCHANGED <<loopVars, sessVars, retpc, excpc, con, idleVars, mainVars, tasks, op,
                 seen, timedout, stopped, how>>

\* close: con.terminating = True; con.sock.settimeout(3)
CloseFlag(t) ==
  /\ pc[t] = "cl_flag"
  /\ terminating' = [terminating EXCEPT ![con[t]] = TRUE]
  /\ timeout' = [timeout EXCEPT ![con[t]] = T_CLOSE]
  /\ stopped' = [w \in Watchers |->
                  stopped[w] \/ (con[w] = con[t] /\ ~terminating[con[t]]
                                 /\ pc[w] \in {"cont_read", "chg_read"})]
  /\ pc' = [pc EXCEPT ![t] = "cl_done"]
  /\ UNCHANGED <<loopVars, poolVars, nsess, idling, tagnum, sent, retpc, excpc, con,
                 imap, key, exc, idleVars, mainVars, tasks, op, lastReleased,
                 seen, timedout, how>>

\* close: if con.idling: _send_simple(con, 'DONE'); a failed send raises
\* con.abort, which close catches: it goes on to _remove_connection
CloseDone(t) ==
  /\ pc[t] = "cl_done"
  /\ IF idling[con[t]]
     THEN \/ /\ sent' = [sent EXCEPT ![con[t]] = <<"DONE", 0>>]
             /\ pc' = [pc EXCEPT ![t] = "cl_logout"]
          \/ /\ pc' = [pc EXCEPT ![t] = "cl_remove"]
             /\ UNCHANGED sent
     ELSE /\ pc' = [pc EXCEPT ![t] = "cl_logout"]
          /\ UNCHANGED sent
  /\ UNCHANGED <<loopVars, poolVars, nsess, idling, terminating, timeout, tagnum, retpc,
                 excpc, con, imap, key, exc, idleVars, mainVars, tasks,
                 ghostVars>>

\* close: _logout(con): a new tag, LOGOUT sent, no response read, shutdown;
\* an error of the send or of the shutdown is caught by close
CloseLogout(t) ==
  /\ pc[t] = "cl_logout"
  /\ tagnum' = [tagnum EXCEPT ![con[t]] = @ + 1]
  /\ \/ sent' = [sent EXCEPT ![con[t]] = <<"LOGOUT", tagnum[con[t]] + 1>>]
     \/ UNCHANGED sent
  /\ pc' = [pc EXCEPT ![t] = "cl_remove"]
  /\ UNCHANGED <<loopVars, poolVars, nsess, idling, terminating, timeout, retpc, excpc,
                 con, imap, key, exc, idleVars, mainVars, tasks, ghostVars>>

\* close: self._remove_connection(con), KeyError when con is not in the map
CloseRemove(t) ==
  /\ pc[t] = "cl_remove"
  /\ IF Registered(con[t])
     THEN /\ SetPool(RemoveConnection(Pool, con[t]))
          /\ Return(t)
          /\ UNCHANGED exc
     ELSE /\ Raise(t, "KeyError")
          /\ UNCHANGED poolVars
  /\ UNCHANGED <<loopVars, sessVars, retpc, excpc, con, idleVars, mainVars, tasks,
                 ghostVars>>

\* ------------------------------------------------------------- tasks
SyncTask(t, pairs) == [type |-> "SyncTask", from |-> t, pairs |-> pairs]
ErrorTask(t) == [type |-> "ErrorTask", from |-> t]
LocalMailTask == [type |-> "LocalMailTask", from |-> "local"]

\* a queue that takes a task only if no equal task waits in it
PutMerged(q, task) == IF InSeq(task, q) THEN q ELSE Append(q, task)

\* queue.Queue.put_nowait: the task goes to the end of the queue
Put(q, task) == Append(q, task)

\* ----------------------------------------------------------- IDLE driver
\* The third field of a received line is all idle() keeps of it.
EXISTS == "EXISTS"
NOTEXISTS == "other"

\* a watcher goes on inside watch()
Goto(w, p) ==
  /\ pc' = [pc EXCEPT ![w] = p]
  /\ UNCHANGED <<exc, how>>

\* the frame of idle() is gone: its locals with it
Unwind(w) ==
  /\ tag' = [tag EXCEPT ![w] = 0]
  /\ text' = [text EXCEPT ![w] = ""]
  /\ seen' = [seen EXCEPT ![w] = FALSE]
  /\ timedout' = [timedout EXCEPT ![w] = FALSE]

\* a watcher's exception leaves watch(): watch_errors' except clauses
Throw(w, e) ==
  /\ pc' = [pc EXCEPT ![w] = "except"]
  /\ exc' = [exc EXCEPT ![w] = e]
  /\ how' = [how EXCEPT ![w] = "raised"]
  /\ Unwind(w)

\* what a read that yields no usable line raises: socket.error (also
\* ssl.SSLError), imaplib's abort('socket error: EOF') at end of stream,
\* abort('unexpected response') for a line of fewer than two fields
ReadErrors == {"socket.error", "abortEOF", "abort"}

\* idle(): con.abort('unexpected response: <token> <resp> <text>') and
\* con.abort('idle failed: <tag> <status> <text>') carry the server's line,
\* which may or may not hold 'EOF'
ProtocolAborts == {"abort", "abort(text with EOF)"}

\* _send_simple turns a socket error into abort('socket error: <error>');
\* the error's text may or may not hold 'EOF'
SendErrors == {"abort(socket error)", "abortEOF"}

\* a new IDLE command right after the continuation
AfterContinuationAgain(txt) == "idle_chk"

\* idle(): if token == '+' and text != 'EXISTS': wait for a change, else
\* go straight to DONE
AfterContinuation(txt) == IF txt # EXISTS THEN "chg_chk" ELSE "done_chk"

\* the check of con.terminating left out
TerminateNever(w, drainpc, gopc) == Goto(w, gopc)

\* idle_terminate: the check of con.terminating before a send or a receive
Terminate(w, drainpc, gopc) ==
  Goto(w, IF terminating[con[w]] THEN drainpc ELSE gopc)

\* watch_errors: connected = True; watch(): 'IDLE' in con.capabilities
Watch(w) ==
  /\ pc[w] = "watch"
  /\ connected' = [connected EXCEPT ![w] = TRUE]
  /\ \/ /\ pc' = [pc EXCEPT ![w] = "select"]
        /\ how' = [how EXCEPT ![w] = ""]
        /\ exc' = [exc EXCEPT ![w] = "none"]
        /\ UNCHANGED <<tag, text, seen, timedout>>
     \/ Throw(w, "abort")
  /\ UNCHANGED <<loopVars, poolVars, sessVars, retpc, excpc, con, imap, key, mainVars,
                 tasks, op, lastReleased, stopped>>

\* watch(): con.select(mailbox, True); idle(): con.sock.settimeout(timeout)
Select(w) ==
  /\ pc[w] = "select"
  /\ \/ /\ timeout' = [timeout EXCEPT ![con[w]] = T_REFRESH]
        /\ Goto(w, "idle_chk")
        /\ UNCHANGED <<tag, text, seen, timedout>>
     \/ /\ \E e \in {"socket.error", "abortEOF"} : Throw(w, e)
        /\ UNCHANGED timeout
  /\ UNCHANGED <<loopVars, poolVars, nsess, idling, terminating, tagnum, sent, retpc,
                 excpc, con, imap, key, connected, mainVars, tasks, op,
                 lastReleased, stopped>>

\* idle(): tag = con._new_tag(); _send's check of con.terminating
IdleTag(w) ==
  /\ pc[w] = "idle_chk"
  /\ tagnum[con[w]] < MaxTag \/ terminating[con[w]]
  /\ tagnum' = [tagnum EXCEPT ![con[w]] = @ + 1]
  /\ tag' = [tag EXCEPT ![w] = tagnum[con[w]] + 1]
  /\ Terminate(w, "drain", "idle_send")
  /\ UNCHANGED <<loopVars, poolVars, nsess, idling, terminating, timeout, sent, retpc,
                 excpc, con, imap, key, connected, text, seen, timedout,
                 mainVars, tasks, op, lastReleased, stopped>>

\* idle(): _send(con, '<tag> IDLE')
IdleSend(w) ==
  /\ pc[w] = "idle_send"
  /\ \/ /\ sent' = [sent EXCEPT ![con[w]] = <<"IDLE", tag[w]>>]
        /\ proto' = [proto EXCEPT ![con[w]] = <<"IDLE", tag[w]>>]
        /\ Goto(w, "idle_set")
        /\ UNCHANGED <<tag, text, seen, timedout>>
     \/ /\ \E e \in SendErrors : Throw(w, e)
        /\ UNCHANGED <<sent, proto>>
  /\ UNCHANGED <<taskVars, mapVars, poolVars, nsess, idling, terminating, timeout, tagnum, retpc,
                 excpc, con, imap, key, connected, mainVars, tasks, op,
                 lastReleased, stopped>>

\* idle(): con.idling = True; token = None: a new iteration waits for its
\* continuation
IdleSet(w) ==
  /\ pc[w] = "idle_set"
  /\ idling' = [idling EXCEPT ![con[w]] = TRUE]
  /\ text' = [text EXCEPT ![w] = ""]
  /\ seen' = [seen EXCEPT ![w] = FALSE]
  /\ timedout' = [timedout EXCEPT ![w] = FALSE]
  /\ Goto(w, "cont_chk")
  /\ UNCHANGED <<loopVars, poolVars, nsess, terminating, timeout, tagnum, sent, retpc,
                 excpc, con, imap, key, connected, tag, mainVars, tasks, op,
                 lastReleased, stopped>>

\* _recv's check of con.terminating, before each of the reads
RecvCheck(w) ==
  /\ pc[w] \in {"cont_chk", "chg_chk", "ok_chk"}
  /\ CASE pc[w] = "cont_chk" -> Terminate(w, "drain", "cont_read")
       [] pc[w] = "chg_chk" -> Terminate(w, "drain_chg", "chg_read")
       [] pc[w] = "ok_chk" -> Terminate(w, "drain", "ok_read")
  /\ UNCHANGED <<loopVars, poolVars, sessVars, retpc, excpc, con, imap, key, idleVars,
                 mainVars, tasks, op, lastReleased, seen, timedout, stopped>>

\* idle(): wait for the '+' continuation.  '* n EXISTS' and other untagged
\* lines are read and the loop goes on; a tagged line, a NO or a BAD is an
\* abort; after '+ idling' text is the third field of that line, which is
\* not 'EXISTS'.
ContRead(w) ==
  /\ pc[w] = "cont_read"
  /\ \/ /\ text' = [text EXCEPT ![w] = ""]                    \* + idling
        /\ Goto(w, AfterContinuation(""))
        /\ UNCHANGED <<tag, seen, timedout>>
     \/ /\ text' = [text EXCEPT ![w] = EXISTS]                \* * n EXISTS
        /\ seen' = [seen EXCEPT ![w] = TRUE]
        /\ Goto(w, "cont_chk")
        /\ UNCHANGED <<tag, timedout>>
     \/ /\ text' = [text EXCEPT ![w] = NOTEXISTS]             \* * n RECENT
        /\ Goto(w, "cont_chk")
        /\ UNCHANGED <<tag, seen, timedout>>
     \/ \E e \in ReadErrors \cup {"IMAPTimeout"} : Throw(w, e)
     \/ \E e \in ProtocolAborts : Throw(w, e)                 \* <tag> ...
  /\ UNCHANGED <<loopVars, poolVars, sessVars, retpc, excpc, con, imap, key, connected,
                 mainVars, tasks, op, lastReleased, stopped>>

\* idle(): wait for '* n EXISTS'.  An EXISTS line or a socket timeout ends
\* the wait; any other line of two or more fields is read over.
ChgRead(w) ==
  /\ pc[w] = "chg_read"
  /\ \/ /\ text' = [text EXCEPT ![w] = EXISTS]                \* * n EXISTS
        /\ seen' = [seen EXCEPT ![w] = TRUE]
        /\ Goto(w, "done_chk")
        /\ UNCHANGED <<tag, timedout>>
     \/ /\ text' = [text EXCEPT ![w] = NOTEXISTS]
        /\ Goto(w, "chg_chk")
        /\ UNCHANGED <<tag, seen, timedout>>
     \/ /\ timedout' = [timedout EXCEPT ![w] = TRUE]          \* IMAPTimeout
        /\ Goto(w, "done_chk")
        /\ UNCHANGED <<tag, text, seen>>
     \/ \E e \in ReadErrors : Throw(w, e)
  /\ UNCHANGED <<loopVars, poolVars, sessVars, retpc, excpc, con, imap, key, connected,
                 mainVars, tasks, op, lastReleased, stopped>>

\* idle(): _send(con, 'DONE'), first its check of con.terminating
DoneCheck(w) ==
  /\ pc[w] = "done_chk"
  /\ Terminate(w, "drain", "done_send")
  /\ UNCHANGED <<loopVars, poolVars, sessVars, retpc, excpc, con, imap, key, idleVars,
                 mainVars, tasks, op, lastReleased, seen, timedout, stopped>>

DoneSend(w) ==
  /\ pc[w] = "done_send"
  /\ \/ /\ sent' = [sent EXCEPT ![con[w]] = <<"DONE", 0>>]
        /\ proto' = [proto EXCEPT ![con[w]] = <<"DONE", @[2]>>]
        /\ Goto(w, "done_set")
        /\ UNCHANGED <<tag, text, seen, timedout>>
     \/ /\ \E e \in SendErrors : Throw(w, e)
        /\ UNCHANGED <<sent, proto>>
  /\ UNCHANGED <<taskVars, mapVars, poolVars, nsess, idling, terminating, timeout, tagnum, retpc,
                 excpc, con, imap, key, connected, mainVars, tasks, op,
                 lastReleased, stopped>>

\* idle(): con.idling = False
DoneSet(w) ==
  /\ pc[w] = "done_set"
  /\ idling' = [idling EXCEPT ![con[w]] = FALSE]
  /\ Goto(w, "ok_chk")
  /\ UNCHANGED <<loopVars, poolVars, nsess, terminating, timeout, tagnum, sent, retpc,
                 excpc, con, imap, key, idleVars, mainVars, tasks, op,
                 lastReleased, seen, timedout, stopped>>

\* a yield after every tagged OK
AfterTaggedOKAlways(txt) == "fire"

\* idle(): if text == 'EXISTS': yield
AfterTaggedOK(txt) == IF txt = EXISTS THEN "fire" ELSE "idle_chk"

\* idle(): wait for '<tag> OK'.  Lines of other tags and untagged lines
\* (an EXISTS among them) are read over, into tk, ok, txt: text is kept.
OkRead(w) ==
  /\ pc[w] = "ok_read"
  /\ \/ /\ Goto(w, AfterTaggedOK(text[w]))                    \* <tag> OK
        /\ proto' = [proto EXCEPT ![con[w]] = <<"OK", tag[w]>>]
        /\ UNCHANGED <<tag, text, seen, timedout>>
     \/ /\ \E e \in ProtocolAborts : Throw(w, e)              \* <tag> NO
        /\ UNCHANGED proto
     \/ /\ seen' = [seen EXCEPT ![w] = TRUE]                  \* * n EXISTS
        /\ Goto(w, "ok_chk")
        /\ UNCHANGED <<tag, text, timedout, proto>>
     \/ /\ Goto(w, "ok_chk")                                  \* another line
        /\ UNCHANGED <<tag, text, seen, timedout, proto>>
     \/ /\ \E e \in ReadErrors \cup {"IMAPTimeout"} : Throw(w, e)
        /\ UNCHANGED proto
  /\ UNCHANGED <<taskVars, mapVars, poolVars, sessVars, retpc, excpc, con, imap, key, connected,
                 mainVars, tasks, op, lastReleased, stopped>>

\* watch(): callback(), which is tasks.put_nowait(SyncTask([...]))
Fire(w) ==
  /\ pc[w] = "fire"
  /\ Len(tasks) < MaxQueue
  /\ tasks' = Put(tasks, SyncTask(w, <<WatchedEndpoint(w)>>))
  /\ Goto(w, "idle_chk")
  /\ UNCHANGED <<loopVars, poolVars, sessVars, retpc, excpc, con, imap, key, idleVars,
                 mainVars, op, lastReleased, seen, timedout, stopped>>

\* idle_terminate: while _recv_simple(con): pass reads lines over; a socket
\* error or an abort is caught and StopIdle raised, which watch() catches:
\* it returns, and watch_errors leaves its loop.  IMAPTimeout is neither
\* socket.error nor con.error: it leaves idle_terminate, and is caught only
\* around the wait-for-change read, where it ends the wait.
Drain(w) ==
  /\ pc[w] \in {"drain", "drain_chg"}
  /\ \/ /\ pc' = [pc EXCEPT ![w] = "finished"]                \* StopIdle
        /\ how' = [how EXCEPT ![w] = "returned"]
        /\ Unwind(w)
        /\ UNCHANGED exc
     \/ IF pc[w] = "drain_chg"
        THEN /\ Goto(w, "done_chk")                           \* IMAPTimeout
             /\ timedout' = [timedout EXCEPT ![w] = TRUE]
             /\ UNCHANGED <<tag, text, seen>>
        ELSE Throw(w, "IMAPTimeout")
  /\ UNCHANGED <<loopVars, poolVars, sessVars, retpc, excpc, con, imap, key, connected,
                 mainVars, tasks, op, lastReleased, stopped>>

\* ---------------------------------------------------- watcher supervisor
\* every watched mailbox of this configuration lives in one IMAP store
StoreKey(w) == "k1"

\* watch_errors: connected = False; con = makecon(con), which is
\* get_or_create_connection the first time and reconnect(con) afterwards
MakeCon(w) ==
  /\ pc[w] = "makecon"
  /\ connected' = [connected EXCEPT ![w] = FALSE]
  /\ IF con[w] = NoCon
     THEN /\ key' = [key EXCEPT ![w] = StoreKey(w)]
          /\ Call(w, "goc_lock", "watch", "except")
     ELSE /\ Call(w, "rc_key", "watch", "except")
          /\ UNCHANGED key
  /\ UNCHANGED <<loopVars, poolVars, sessVars, con, imap, exc, tag, text, mainVars,
                 tasks, ghostVars>>

\* exceptions of the first except clause of watch_errors
Transient == {"socket.error", "abort", "abort(socket error)", "abortEOF",
              "abort(text with EOF)", "IMAPTimeout"}

\* a sleep after every transient error
AfterTransientSleep(isConnected) == "sleeping"

\* watch_errors: if not connected: time.sleep(30); then the loop goes on
AfterTransient(isConnected) == IF isConnected THEN "makecon" ELSE "sleeping"

\* watch_errors: the except clauses.  con.terminating is read first, and
\* with con still None that read raises AttributeError inside the handler:
\* the thread dies.  An abort without 'EOF' and every other exception become
\* an ErrorTask.
HandleException(w) ==
  /\ pc[w] = "except"
  /\ IF exc[w] \in Transient
     THEN IF con[w] = NoCon
          THEN /\ pc' = [pc EXCEPT ![w] = "crashed"]
               /\ exc' = [exc EXCEPT ![w] = "AttributeError"]
               /\ UNCHANGED tasks
          ELSE IF terminating[con[w]]
          THEN /\ pc' = [pc EXCEPT ![w] = "finished"]
               /\ UNCHANGED <<exc, tasks>>
          ELSE IF exc[w] \in {"abort", "abort(socket error)"}
          THEN /\ tasks' = Put(tasks, ErrorTask(w))
               /\ pc' = [pc EXCEPT ![w] = "finished"]
               /\ UNCHANGED exc
          ELSE /\ pc' = [pc EXCEPT ![w] = AfterTransient(connected[w])]
               /\ UNCHANGED <<exc, tasks>>
     ELSE /\ tasks' = Put(tasks, ErrorTask(w))
          /\ pc' = [pc EXCEPT ![w] = "finished"]
          /\ UNCHANGED exc
  /\ UNCHANGED <<loopVars, poolVars, sessVars, retpc, excpc, con, imap, key, idleVars,
                 mainVars, ghostVars>>

\* watch_errors: time.sleep(30) is over
Wake(w) ==
  /\ pc[w] = "sleeping"
  /\ pc' = [pc EXCEPT ![w] = "makecon"]
  /\ UNCHANGED <<loopVars, poolVars, sessVars, retpc, excpc, con, imap, key, exc,
                 idleVars, mainVars, tasks, ghostVars>>

\* populate_stores_w_mailboxes: the next IMAP store:
\* con = cpool.get_or_create_connection(...)
Populate ==
  /\ pc["main"] = "populate"
  /\ IF todo = {}
     THEN /\ pc' = [pc EXCEPT !["main"] = "start_watching"]
          /\ UNCHANGED <<todo, key, retpc, excpc>>
     ELSE \E k \in todo :
            /\ todo' = todo \ {k}
            /\ key' = [key EXCEPT !["main"] = k]
            /\ Call("main", "goc_lock", "enumerate", "close_all")
  /\ UNCHANGED <<loopVars, poolVars, sessVars, con, imap, exc, idleVars, snapshot,
                 tasks, ghostVars>>

\* populate_stores_w_mailboxes: NAMESPACE and LIST on the session, then
\* cpool.release(con); an error of LIST leaves without the release, a LIST
\* line that does not parse releases and then raises
Enumerate ==
  /\ pc["main"] = "enumerate"
  /\ \/ Call("main", "release", "populate", "close_all")
     \/ Call("main", "release", "close_all", "close_all")
     \/ /\ pc' = [pc EXCEPT !["main"] = "close_all"]
        /\ UNCHANGED <<retpc, excpc>>
  /\ UNCHANGED <<loopVars, poolVars, sessVars, con, imap, key, exc, idleVars, mainVars,
                 tasks, ghostVars>>

\* start_watching: one daemon thread running watch_errors per watched
\* mailbox
StartWatching ==
  /\ pc["main"] = "start_watching"
  /\ pc' = [t \in Threads |-> CASE t = "main" -> "put_syncall"
                                 [] t \in watched -> "makecon"
                                 [] OTHER -> pc[t]]
  /\ UNCHANGED <<loopVars, poolVars, sessVars, retpc, excpc, con, imap, key, exc,
                 idleVars, mainVars, tasks, ghostVars>>

\* all the orders in which a list can hold the elements of S
ListsOf(S) ==
  {q \in [1..Cardinality(S) -> S] : \A x \in S : \E i \in DOMAIN q : q[i] = x}

\* make_sync_all_task for this sync map: the IMAP endpoint of every pair,
\* in the order list(set(...)) happens to give
SyncAllPairs == ListsOf({IF e \in Maildirs THEN Partner(e) ELSE e : e \in Endpoints})

\* main: tasks.put_nowait(make_sync_all_task(syncmap, stores))
PutSyncAll ==
  /\ pc["main"] = "put_syncall"
  /\ \E pairs \in SyncAllPairs : tasks' = Put(tasks, SyncTask("main", pairs))
  /\ pc' = [pc EXCEPT !["main"] = "task_loop"]
  /\ UNCHANGED <<loopVars, poolVars, sessVars, retpc, excpc, con, imap, key, exc,
                 idleVars, mainVars, ghostVars>>

\* task_loop, LocalMailTask: the partner tuples of the Maildir endpoints
\* whose cur/ listing is not the cached one, in the sync map's order
ChangedPairs ==
  LET changed == SelectSeq(SyncMapKeys,
                   LAMBDA e : e \in Maildirs /\ dircache[e] # listing[e])
  IN [i \in 1..Len(changed) |-> Partner(changed[i])]

\* task_loop: task = tasks.get().  An ErrorTask raises SystemExit(1).  A
\* LocalMailTask compares every Maildir's cur/ listing with dircache, stores
\* the listing, and puts one SyncTask if a listing differed.  A SyncTask
\* starts the sync command.
\* the sync command of these tuples covers the pair of Maildir endpoint m
Covers(pairs, m) == \E i \in DOMAIN pairs : pairs[i] \in {m, Partner(m)}

TaskGet ==
  /\ pc["main"] = "task_loop"
  /\ tasks # <<>>
  /\ LET task == Head(tasks)
     IN CASE task.type = "ErrorTask" ->
               /\ tasks' = Tail(tasks)
               /\ sysexit' = "1"
               /\ pc' = [pc EXCEPT !["main"] = "close_all"]
               /\ UNCHANGED <<running, dircache, sinceScan, lastScan, pending>>
          [] task.type = "LocalMailTask" ->
               /\ tasks' = IF ChangedPairs # <<>>
                           THEN Put(Tail(tasks), SyncTask("main", ChangedPairs))
                           ELSE Tail(tasks)
               /\ dircache' = [m \in Maildirs |-> listing[m]]
               /\ sinceScan' = "quiet"
               /\ lastScan' = <<sinceScan, ChangedPairs # <<>> >>
               /\ UNCHANGED <<pc, running, sysexit, pending>>
          [] task.type = "SyncTask" ->
               /\ tasks' = Tail(tasks)
               /\ running' = task.pairs
               /\ pending' = [m \in Maildirs |->
                                IF pending[m] = "yes" /\ Covers(task.pairs, m)
                                THEN "no" ELSE pending[m]]
               /\ pc' = [pc EXCEPT !["main"] = "sync"]
               /\ UNCHANGED <<dircache, sysexit, sinceScan, lastScan>>
  /\ UNCHANGED <<maildirs, watched, listing, mapVars, proto, poolVars, sessVars, retpc, excpc,
                 con, imap, key, exc, idleVars, mainVars, ghostVars>>

\* the cached listings of the synced Maildirs dropped
AfterSyncForget(cache, pairs) ==
  [m \in Maildirs |-> IF \E i \in DOMAIN pairs : Partner(pairs[i]) = m
                      THEN NoListing ELSE cache[m]]

\* task_loop, SyncTask, "update parts of dircache": for every tuple of the
\* task whose partner is a Maildir, dircache[partner's cur] = listdir
AfterSync(cache, pairs) ==
  [m \in Maildirs |-> IF \E i \in DOMAIN pairs : Partner(pairs[i]) = m
                      THEN listing[m] ELSE cache[m]]

\* task_loop, SyncTask: run_sync_command ends.  check_call's
\* CalledProcessError ends task_loop, and main raises SystemExit(1); else
\* dircache of the Maildir partner of every tuple of the task is set to the
\* listing read now.
SyncDone ==
  /\ pc["main"] = "sync"
  /\ running' = <<>>
  /\ \/ /\ dircache' = AfterSync(dircache, running)
        /\ sinceScan' = IF sinceScan = "quiet" THEN "synced" ELSE sinceScan
        /\ pc' = [pc EXCEPT !["main"] = "task_loop"]
        /\ UNCHANGED sysexit
     \/ /\ sysexit' = "1"
        /\ pc' = [pc EXCEPT !["main"] = "close_all"]
        /\ UNCHANGED <<dircache, sinceScan>>
  /\ UNCHANGED <<maildirs, watched, pending, listing, lastScan, mapVars, proto, poolVars, sessVars, retpc, excpc, con,
                 imap, key, exc, idleVars, mainVars, tasks, ghostVars>>

\* watch_local: tasks.put_nowait(LocalMailTask()), once a period
PutLocal ==
  /\ pc["main"] \in {"task_loop", "sync"}
  /\ Len(tasks) < MaxQueue
  /\ tasks' = Put(tasks, LocalMailTask)
  /\ UNCHANGED <<loopVars, poolVars, sessVars, callVars, idleVars, mainVars,
                 ghostVars>>

\* the file system: mail is delivered to, or moved out of, a Maildir
FsChange(m) ==
  /\ \E l \in Listings \ {listing[m]} : listing' = [listing EXCEPT ![m] = l]
  /\ sinceScan' = IF sinceScan = "" THEN "" ELSE "changed"
  /\ pending' = [pending EXCEPT ![m] = IF @ = "off" THEN "off" ELSE "yes"]
  /\ UNCHANGED <<maildirs, watched, running, dircache, sysexit, lastScan, mapVars, proto,
                 poolVars, sessVars,
                 callVars, idleVars, mainVars, tasks, ghostVars>>

\* main: a KeyboardInterrupt ends task_loop; the finally clause calls
\* cpool.close_all()
TaskLoopEnds ==
  /\ pc["main"] = "task_loop"
  /\ sysexit' = "1"
  /\ pc' = [pc EXCEPT !["main"] = "close_all"]
  /\ UNCHANGED <<maildirs, watched, pending, running, dircache, listing, sinceScan, lastScan,
                 mapVars, proto, poolVars, sessVars, retpc, excpc, con, imap, key, exc,
                 idleVars, mainVars, tasks, ghostVars>>

\* close_all: for con in list(self._con_key_map)
CloseAll ==
  /\ pc["main"] = "close_all"
  /\ snapshot' = {s \in Sessions : con_key_map[s] # NoKey}
  /\ pc' = [pc EXCEPT !["main"] = "close_next"]
  /\ UNCHANGED <<loopVars, poolVars, sessVars, retpc, excpc, con, imap, key, exc,
                 idleVars, todo, tasks, ghostVars>>

\* close_all: self.close(con) for the next session of the snapshot; a
\* KeyError of close leaves close_all and ends the main thread
CloseNext ==
  /\ pc["main"] = "close_next"
  /\ IF snapshot = {}
     THEN /\ pc' = [pc EXCEPT !["main"] = "exit"]
          /\ UNCHANGED <<snapshot, con, retpc, excpc>>
     ELSE \E s \in snapshot :
            /\ snapshot' = snapshot \ {s}
            /\ con' = [con EXCEPT !["main"] = s]
            /\ Call("main", "cl_flag", "close_next", "exit")
  /\ UNCHANGED <<loopVars, poolVars, sessVars, imap, key, exc, idleVars, todo, tasks,
                 ghostVars>>

\* ------------------------------------------------------------ channels.py
\* Mailbox names, prefixes and patterns are sequences of characters; INBOX
\* stands for the string 'INBOX' and HOME for an expanded directory path.
INBOX == <<"INBOX">>
HOME(st) == <<st>>

\* str.replace(a, b) for one-character a and b
Replace(str, a, b) == [i \in DOMAIN str |-> IF str[i] = a THEN b ELSE str[i]]

\* str.startswith(prefix)
StartsWith(str, prefix) ==
  /\ Len(str) >= Len(prefix)
  /\ SubSeq(str, 1, Len(prefix)) = prefix

\* the stores after populate_stores_w_mailboxes, without their mailboxes:
\* an IMAP store has the path of its namespace and no 'inbox', a Maildir
\* store has delimiter store.get('flatten', '/')
Stores ==
  [I1 |-> [kind |-> "imapstore", delimiter |-> ".", path |-> <<>>,
           inbox |-> INBOX],
   I2 |-> [kind |-> "imapstore", delimiter |-> "/", path |-> <<>>,
           inbox |-> INBOX],
   M1 |-> [kind |-> "maildirstore", delimiter |-> "/", path |-> HOME("M1"),
           inbox |-> HOME("M1") \o INBOX],
   M2 |-> [kind |-> "maildirstore", delimiter |-> "/", path |-> HOME("M2"),
           inbox |-> HOME("M2") \o INBOX]]
StoreNames == {"I1", "I2", "M1", "M2"}

\* re.escape, then .replace('\\*', '.*').replace('\\%', '[^' + delimiter +
\* ']'), one character of the pattern at a time.  re.escape puts a backslash
\* before '%' up to Python 3.6 and leaves '%' alone from Python 3.7 on, where
\* the second replace then finds nothing to replace (unescaped).
RegexOf(patre, unescaped) ==
  [i \in DOMAIN patre |->
     CASE patre[i] = "*" -> ".*"
       [] patre[i] = "%" -> IF unescaped THEN "%" ELSE "[^/]"
       [] OTHER -> patre[i]]

pattern_to_regex(pattern, unescaped) ==
  LET neg == StartsWith(pattern, <<"!">>)
      patre == IF neg THEN Tail(pattern) ELSE pattern
  IN [neg |-> neg, regex |-> RegexOf(patre, unescaped)]

\* regex.match(box) for the compiled patre + '$'
RECURSIVE ReMatch(_, _)
ReMatch(regex, str) ==
  IF regex = <<>> THEN str = <<>>
  ELSE CASE Head(regex) = ".*" ->
              \E k \in 0..Len(str) :
                ReMatch(Tail(regex), SubSeq(str, k + 1, Len(str)))
         [] Head(regex) = "[^/]" ->
              /\ str # <<>>
              /\ Head(str) # "/"
              /\ ReMatch(Tail(regex), Tail(str))
         [] OTHER ->
              /\ str # <<>>
              /\ Head(str) = Head(regex)
              /\ ReMatch(Tail(regex), Tail(str))

\* get_syncmap: for neg, regex in reversed(channel['regexps']): the first
\* regex that matches decides, by `not neg`
RECURSIVE Selected(_, _)
Selected(regexps, name) ==
  IF regexps = <<>> THEN FALSE
  ELSE IF ReMatch(Last(regexps).regex, name) THEN ~Last(regexps).neg
       ELSE Selected(Front(regexps), name)

get_normalized_box(mailbox, prefix, delimiter) ==
  LET replaced == Replace(mailbox, delimiter, "/")
  IN IF StartsWith(replaced, prefix)
     THEN SubSeq(replaced, Len(prefix) + 1, Len(replaced))
     ELSE replaced

get_store_box(mailbox, prefix, delimiter) ==
  Replace(prefix \o mailbox, "/", delimiter)

get_box_path(sbox, store) ==
  IF sbox # INBOX THEN store.path \o sbox ELSE store.inbox

\* channel[stype + '_box']
PrefixOf(channel, stype) ==
  IF stype = "master" THEN channel.master_box ELSE channel.slave_box

\* get_syncmap, regexps branch and single box branch, one store: what is
\* appended to pairs, as records of the key of pairs and the tuple
SidePairs(channel, stype) ==
  LET stname == channel[stype]
      store == Stores[stname]
      prefix == PrefixOf(channel, stype)
      delim == store.delimiter
  IN IF channel.mode = "regexps"
     THEN LET sboxes ==
                SelectSeq(mailboxes[stname],
                          LAMBDA sbox :
                            Selected(channel.regexps,
                                     get_normalized_box(sbox, prefix, delim)))
          IN [i \in DOMAIN sboxes |->
                LET name == get_normalized_box(sboxes[i], prefix, delim)
                IN [key |-> name,
                    tuple |-> <<stname, name,
                                get_box_path(sboxes[i], store)>>]]
     ELSE LET name == IF prefix # <<>> THEN prefix ELSE INBOX
              sbox == get_store_box(name, <<>>, delim)
          IN << [key |-> <<>>,
                 tuple |-> <<stname, name, get_box_path(sbox, store)>>] >>

\* pairs, after both stores: key -> list of tuples
PairsOf(channel) ==
  LET all == SidePairs(channel, "master") \o SidePairs(channel, "slave")
  IN [k \in {all[i].key : i \in DOMAIN all} |->
        LET of == SelectSeq(all, LAMBDA r : r.key = k)
        IN [i \in DOMAIN of |-> of[i].tuple]]

\* the dict given to syncmap.update, for all the pairs of one channel
PairsUpdate(channel) ==
  LET pairs == PairsOf(channel)
      ends(k) == {pairs[k][1], pairs[k][2]}
  IN [e \in UNION {ends(k) : k \in DOMAIN pairs} |->
        LET k == CHOOSE j \in DOMAIN pairs : e \in ends(j)
        IN IF e = pairs[k][2] THEN pairs[k][1] \o <<channel.name>>
                              ELSE pairs[k][2] \o <<channel.name>>]

\* what one iteration of get_syncmap's loop over the channels raises ("":
\* nothing).  In the boxes branch the first box is either not in the master
\* store's mailboxes, or get_store_box is called with two arguments.
ChannelRaises(channel) ==
  IF channel.mode = "boxes"
  THEN LET store == Stores[channel.master]
           sbox == get_store_box(channel.boxes[1], channel.master_box,
                                 store.delimiter)
       IN IF ~InSeq(sbox, mailboxes[channel.master])
          THEN "MailboxError" ELSE "TypeError"
  ELSE IF \E k \in DOMAIN PairsOf(channel) : Len(PairsOf(channel)[k]) # 2
       THEN "MailboxError" ELSE ""

\* make_sync_all_task: the tuples of the SyncTask, list(set([...]))
make_sync_all_task(map) ==
  {IF Stores[p1[1]].kind = "imapstore" THEN p1 ELSE SubSeq(map[p1], 1, 3) :
     p1 \in DOMAIN map}

\* get_channels: channel['regexps'] = list(map(pattern_to_regex, patterns))
GetChannels ==
  /\ mpc = "get_channels"
  /\ channels' = [i \in DOMAIN channels |->
                    [channels[i] EXCEPT !.regexps =
                       [j \in DOMAIN channels[i].patterns |->
                          pattern_to_regex(channels[i].patterns[j], py37)]]]
  /\ mpc' = "get_syncmap"
  /\ UNCHANGED <<mailboxes, py37, syncmap, raised, chidx, syncall, box,
                 selected>>
  /\ UNCHANGED <<taskVars, proto, poolVars, sessVars, callVars, idleVars, mainVars,
                 tasks, ghostVars>>

\* get_syncmap: one iteration of `for chname, channel in channels.items()`
SyncmapChannel ==
  /\ mpc = "get_syncmap"
  /\ chidx <= Len(channels)
  /\ LET channel == channels[chidx]
     IN IF ChannelRaises(channel) # ""
        THEN /\ raised' = ChannelRaises(channel)
             /\ mpc' = "exit"
             /\ UNCHANGED <<syncmap, chidx>>
        ELSE /\ syncmap' = PairsUpdate(channel) @@ syncmap
             /\ chidx' = chidx + 1
             /\ UNCHANGED <<raised, mpc>>
  /\ UNCHANGED <<channels, mailboxes, py37, syncall, box, selected>>
  /\ UNCHANGED <<taskVars, proto, poolVars, sessVars, callVars, idleVars, mainVars,
                 tasks, ghostVars>>

\* main: syncmap = get_syncmap(channels) returns, and
\* syncall = make_sync_all_task(syncmap, stores)
MakeSyncAll ==
  /\ mpc = "get_syncmap"
  /\ chidx > Len(channels)
  /\ syncall' = make_sync_all_task(syncmap)
  /\ mpc' = "sync_all"
  /\ UNCHANGED <<channels, mailboxes, py37, syncmap, raised, chidx, box,
                 selected>>
  /\ UNCHANGED <<taskVars, proto, poolVars, sessVars, callVars, idleVars, mainVars,
                 tasks, ghostVars>>

\* get_syncmap, regexps branch: the loop over reversed(channel['regexps'])
\* for one normalized mailbox name
MatchBox(str) ==
  /\ mpc = "get_syncmap"
  /\ box' = str
  /\ selected' = Selected(channels[1].regexps, str)
  /\ mpc' = "matched"
  /\ UNCHANGED <<channels, mailboxes, py37, syncmap, raised, chidx, syncall>>
  /\ UNCHANGED <<taskVars, proto, poolVars, sessVars, callVars, idleVars, mainVars,
                 tasks, ghostVars>>

\* ------------------------------------------------------- pool harness
\* A single client calls the pool's methods in any order, with any key and
\* any session opened so far; a call runs to its return or its exception
\* before the next one starts.

HarnessGet ==
  /\ pc["main"] = "ready"
  /\ \E k \in Keys :
       /\ key' = [key EXCEPT !["main"] = k]
       /\ lastReleased' = IF Registered(lastReleased) /\ con_key_map[lastReleased] = k
                          THEN lastReleased ELSE NoCon
  /\ op' = "get_or_create_connection"
  /\ Call("main", "goc_lock", "returned", "raised")
  /\ UNCHANGED <<loopVars, poolVars, sessVars, con, imap, exc, idleVars, mainVars,
                 tasks, seen, timedout, stopped, how>>

\* a session is closed once: close is not called on a terminating session
HarnessCall(name, first) ==
  /\ pc["main"] = "ready"
  /\ \E s \in 1..nsess :
       /\ name = "close" => ~terminating[s]
       /\ con' = [con EXCEPT !["main"] = s]
  /\ lastReleased' = NoCon
  /\ op' = name
  /\ Call("main", first, "returned", "raised")
  /\ UNCHANGED <<loopVars, poolVars, sessVars, imap, key, exc, idleVars, mainVars,
                 tasks, seen, timedout, stopped, how>>

HarnessRelease == HarnessCall("release", "release")
HarnessReconnect == HarnessCall("reconnect", "rc_key")
HarnessClose == HarnessCall("close", "cl_flag")

\* the client drops the result (or the exception) of the call
HarnessNext ==
  /\ pc["main"] \in {"returned", "raised"}
  /\ pc' = [pc EXCEPT !["main"] = "ready"]
  /\ con' = [con EXCEPT !["main"] = NoCon]
  /\ exc' = [exc EXCEPT !["main"] = "none"]
  /\ op' = ""
  /\ UNCHANGED <<loopVars, poolVars, sessVars, retpc, excpc, imap, key, idleVars,
                 mainVars, tasks, lastReleased, seen, timedout, stopped, how>>

\* the holder of a busy session runs the IDLE driver on it:
\* con.idling = True after IDLE is sent, False after DONE
HarnessIdle ==
  /\ pc["main"] = "ready"
  /\ \E s \in 1..nsess :
       /\ Registered(s)
       /\ InSeq(s, busy[con_key_map[s]])
       /\ idling' = [idling EXCEPT ![s] = ~@]
  /\ UNCHANGED <<loopVars, poolVars, nsess, terminating, timeout, tagnum, sent,
                 callVars, idleVars, mainVars, tasks, ghostVars>>

InitShared ==
  /\ released = [k \in Keys |-> <<>>]
  /\ idling = [s \in Sessions |-> FALSE]
  /\ terminating = [s \in Sessions |-> FALSE]
  /\ timeout = [s \in Sessions |-> 0]
  /\ tagnum = [s \in Sessions |-> 0]
  /\ sent = [s \in Sessions |-> <<>>]
  /\ retpc = [t \in Threads |-> ""]
  /\ excpc = [t \in Threads |-> ""]
  /\ imap = [t \in Threads |-> NoCon]
  /\ key = [t \in Threads |-> "k1"]
  /\ exc = [t \in Threads |-> "none"]
  /\ tag = [w \in Watchers |-> 0]
  /\ text = [w \in Watchers |-> ""]
  /\ snapshot = {}
  /\ tasks = <<>>
  /\ op = ""
  /\ lastReleased = NoCon
  /\ seen = [w \in Watchers |-> FALSE]
  /\ timedout = [w \in Watchers |-> FALSE]
  /\ stopped = [w \in Watchers |-> FALSE]
  /\ how = [w \in Watchers |-> ""]
  /\ running = <<>>
  /\ dircache = [m \in Maildirs |-> NoListing]
  /\ listing = [m \in Maildirs |-> 1]
  /\ sysexit = ""
  /\ sinceScan = ""
  /\ lastScan = <<"", FALSE>>
  /\ proto = [s \in Sessions |-> <<"", 0>>]

\* the pool right after construction, one client
\* get_channels and get_syncmap are not part of the run
MapOff ==
  /\ channels = <<>>
  /\ mailboxes = [st \in StoreNames |-> <<>>]
  /\ py37 = FALSE
  /\ syncmap = <<>>
  /\ raised = ""
  /\ chidx = 1
  /\ syncall = {}
  /\ box = <<>>
  /\ selected = FALSE
  /\ mpc = "off"

InitPool ==
  /\ maildirs = {"m1", "m2"}
  /\ InitShared
  /\ pending = [m \in Maildirs |-> "off"]
  /\ MapOff
  /\ connected = [w \in Watchers |-> FALSE]
  /\ busy = [k \in Keys |-> <<>>]
  /\ con_key_map = [s \in Sessions |-> NoKey]
  /\ nsess = 0
  /\ con = [t \in Threads |-> NoCon]
  /\ todo = {}
  /\ watched = {}
  /\ pc = [t \in Threads |-> IF t = "main" THEN "ready" ELSE "unstarted"]

NextPool ==
  \/ HarnessGet
  \/ HarnessRelease
  \/ HarnessReconnect
  \/ HarnessClose
  \/ HarnessIdle
  \/ HarnessNext
  \/ GocLock("main")
  \/ Connect("main")
  \/ GocAdd("main")
  \/ RcKey("main")
  \/ RcCommit("main")
  \/ Release("main")
  \/ CloseFlag("main")
  \/ CloseDone("main")
  \/ CloseLogout("main")
  \/ CloseRemove("main")

SpecPool == InitPool /\ [][NextPool]_vars

\* ------------------------------------------------------- watch harness
\* One thread calls watch() on a session it got from the pool, while a
\* second thread may call close() on that session at any moment.
InitWatch ==
  /\ maildirs = {"m1", "m2"}
  /\ InitShared
  /\ pending = [m \in Maildirs |-> "off"]
  /\ MapOff
  /\ connected = [w \in Watchers |-> FALSE]
  /\ busy = [k \in Keys |-> IF k = "k1" THEN <<1>> ELSE <<>>]
  /\ con_key_map = [s \in Sessions |-> IF s = 1 THEN "k1" ELSE NoKey]
  /\ nsess = 1
  /\ con = [t \in Threads |-> IF t = "w1" THEN 1 ELSE NoCon]
  /\ todo = {}
  /\ watched = {"w1"}
  /\ pc = [t \in Threads |-> CASE t = "main" -> "ready"
                                [] t = "w1" -> "watch"
                                [] t = "w2" -> "unstarted"]

WatchStep(w) ==
  \/ Watch(w)
  \/ Select(w)
  \/ IdleTag(w)
  \/ IdleSend(w)
  \/ IdleSet(w)
  \/ RecvCheck(w)
  \/ ContRead(w)
  \/ ChgRead(w)
  \/ DoneCheck(w)
  \/ DoneSend(w)
  \/ DoneSet(w)
  \/ OkRead(w)
  \/ Fire(w)
  \/ Drain(w)

CloseStep(t) ==
  \/ CloseFlag(t)
  \/ CloseDone(t)
  \/ CloseLogout(t)
  \/ CloseRemove(t)

NextWatch ==
  \/ WatchStep("w1")
  \/ HarnessClose
  \/ HarnessNext
  \/ CloseStep("main")

\* a running thread takes its next step: a read returns a line, an error or,
\* at the latest, the socket timeout
SpecWatch ==
  /\ InitWatch
  /\ [][NextWatch]_vars
  /\ WF_vars(WatchStep("w1"))
  /\ WF_vars(CloseStep("main"))

WatcherStep(w) ==
  \/ MakeCon(w)
  \/ GocLock(w)
  \/ Connect(w)
  \/ GocAdd(w)
  \/ RcKey(w)
  \/ RcCommit(w)
  \/ WatchStep(w)
  \/ HandleException(w)
  \/ Wake(w)

\* ------------------------------------------------- watch_errors harness
\* The watcher of a second mailbox of a store starts: the store's first
\* session is busy with the first mailbox.  A second thread may close any
\* session at any moment.
InitErrors ==
  /\ maildirs = {"m1", "m2"}
  /\ InitShared
  /\ pending = [m \in Maildirs |-> "off"]
  /\ MapOff
  /\ connected = [w \in Watchers |-> FALSE]
  /\ busy = [k \in Keys |-> IF k = "k1" THEN <<1>> ELSE <<>>]
  /\ con_key_map = [s \in Sessions |-> IF s = 1 THEN "k1" ELSE NoKey]
  /\ nsess = 1
  /\ con = [t \in Threads |-> NoCon]
  /\ todo = {}
  /\ watched = {"w1"}
  /\ pc = [t \in Threads |-> CASE t = "main" -> "ready"
                                [] t = "w1" -> "makecon"
                                [] t = "w2" -> "unstarted"]

NextErrors ==
  \/ WatcherStep("w1")
  \/ HarnessClose
  \/ HarnessNext
  \/ CloseStep("main")

SpecErrors == InitErrors /\ [][NextErrors]_vars

\* -------------------------------------------------- dispatcher harness
\* The dispatcher (task_loop) with its producers: two watchers in their
\* IDLE loops on sessions of their own, watch_local, and the file system.
\* An IDLE iteration is contracted to its outcome.
IdleRound(w) ==
  /\ pc[w] = "idle_chk"
  /\ ~terminating[con[w]]
  /\ \/ /\ Goto(w, "fire")                         \* EXISTS, tagged OK
        /\ text' = [text EXCEPT ![w] = EXISTS]
        /\ seen' = [seen EXCEPT ![w] = TRUE]
        /\ UNCHANGED <<tag, timedout>>
     \/ \E e \in ProtocolAborts : Throw(w, e)
  /\ UNCHANGED <<loopVars, poolVars, sessVars, retpc, excpc, con, imap, key,
                 connected, mainVars, tasks, op, lastReleased, stopped>>

InitLoop ==
  /\ maildirs = {"m1", "m2"}
  /\ InitShared
  /\ pending = [m \in Maildirs |-> "off"]
  /\ MapOff
  /\ connected = [w \in Watchers |-> TRUE]
  /\ busy = [k \in Keys |-> IF k = "k1" THEN <<1, 2>> ELSE <<>>]
  /\ con_key_map = [s \in Sessions |-> IF s \in {1, 2} THEN "k1" ELSE NoKey]
  /\ nsess = 2
  /\ con = [t \in Threads |-> CASE t = "main" -> NoCon
                                 [] t = "w1" -> 1
                                 [] t = "w2" -> 2]
  /\ todo = {}
  /\ watched = Watchers
  /\ pc = [t \in Threads |-> IF t = "main" THEN "put_syncall" ELSE "idle_chk"]

NextLoop ==
  \/ PutSyncAll
  \/ TaskGet
  \/ SyncDone
  \/ TaskLoopEnds
  \/ PutLocal
  \/ \E m \in Maildirs : FsChange(m)
  \/ \E w \in Watchers : IdleRound(w) \/ Fire(w) \/ HandleException(w)

SpecLoop == InitLoop /\ [][NextLoop]_vars

\* The dispatcher over a sync map whose second pair joins two Maildir
\* stores: no watcher is started for it, watch_local alone reports its
\* changes.
InitLocal ==
  /\ maildirs = {"m1", "i2", "m2"}
  /\ InitShared
  /\ pending = [m \in Maildirs |-> "off"]
  /\ MapOff
  /\ connected = [w \in Watchers |-> TRUE]
  /\ busy = [k \in Keys |-> IF k = "k1" THEN <<1>> ELSE <<>>]
  /\ con_key_map = [s \in Sessions |-> IF s = 1 THEN "k1" ELSE NoKey]
  /\ nsess = 1
  /\ con = [t \in Threads |-> IF t = "w1" THEN 1 ELSE NoCon]
  /\ todo = {}
  /\ watched = {"w1"}
  /\ pc = [t \in Threads |-> CASE t = "main" -> "put_syncall"
                                [] t = "w1" -> "idle_chk"
                                [] t = "w2" -> "unstarted"]

SpecLocal == InitLocal /\ [][NextLoop]_vars

\* The dispatcher and the local poller alone: no IMAP mailbox changes, the
\* only producers are main's initial SyncTask and watch_local.  The main
\* thread runs task_loop without pause, a sync command ends, and
\* watch_local wakes once a period.
InitPoll ==
  /\ maildirs = {"m1", "m2"}
  /\ InitShared
  /\ pending = [m \in Maildirs |-> "no"]
  /\ MapOff
  /\ connected = [w \in Watchers |-> FALSE]
  /\ busy = [k \in Keys |-> <<>>]
  /\ con_key_map = [s \in Sessions |-> NoKey]
  /\ nsess = 0
  /\ con = [t \in Threads |-> NoCon]
  /\ todo = {}
  /\ watched = {}
  /\ pc = [t \in Threads |-> IF t = "main" THEN "put_syncall" ELSE "unstarted"]

NextPoll ==
  \/ PutSyncAll
  \/ TaskGet
  \/ SyncDone
  \/ TaskLoopEnds
  \/ PutLocal
  \/ \E m \in Maildirs : FsChange(m)

SpecPoll ==
  /\ InitPoll
  /\ [][NextPoll]_vars
  /\ WF_vars(TaskGet)
  /\ WF_vars(SyncDone)
  /\ WF_vars(PutLocal)

\* ------------------------------------------------------- sync map harness
\* What populate_stores_w_mailboxes found in each store, and the channels
\* get_channels was given.
A == <<"a">>
AdotB == <<"a", ".", "b">>
AslashB == <<"a", "/", "b">>

MailboxLists(st) ==
  CASE st = "I1" -> {<<>>, <<A>>, <<AdotB>>, <<A, AdotB>>, <<AdotB, AslashB>>}
    [] st = "I2" -> {<<>>, <<A>>, <<AslashB>>, <<A, AslashB>>}
    [] st = "M1" -> {<<>>, <<A>>, <<AslashB>>, <<A, AslashB>>}
    [] st = "M2" -> {<<A>>, <<AslashB>>}

Channel(chname, master, slave, mode, patterns, boxes) ==
  [name |-> chname, master |-> master, slave |-> slave,
   master_box |-> <<>>, slave_box |-> <<>>, mode |-> mode,
   patterns |-> patterns, boxes |-> boxes, regexps |-> <<>>]

\* the ways a channel selects its mailboxes: Patterns, the boxes of a
\* command line argument channel:box, or neither (a single box channel)
Selections ==
  {[mode |-> "regexps", patterns |-> p, boxes |-> <<>>] :
     p \in {<< <<"*">> >>, << <<"*">>, <<"!", "a">> >>, << <<"%">> >>}}
  \cup {[mode |-> "boxes", patterns |-> <<>>, boxes |-> b] :
          b \in {<<A>>, <<AslashB>>}}
  \cup {[mode |-> "single", patterns |-> <<>>, boxes |-> <<>>]}

FirstChannels ==
  {Channel("c1", ms[1], ms[2], s.mode, s.patterns, s.boxes) :
     ms \in {<<"I1", "M1">>, <<"I1", "I2">>, <<"M1", "M2">>},
     s \in Selections}

SecondChannels ==
  {Channel("c2", ms[1], ms[2], s.mode, s.patterns, s.boxes) :
     ms \in {<<"I1", "M2">>, <<"I2", "M1">>},
     s \in {t \in Selections : t.mode = "single" \/ Len(t.patterns) = 2}}

ProgramOff ==
  /\ maildirs = {"m1", "m2"}
  /\ InitShared
  /\ pending = [m \in Maildirs |-> "off"]
  /\ connected = [w \in Watchers |-> FALSE]
  /\ busy = [k \in Keys |-> <<>>]
  /\ con_key_map = [s \in Sessions |-> NoKey]
  /\ nsess = 0
  /\ con = [t \in Threads |-> NoCon]
  /\ todo = {}
  /\ watched = {}
  /\ pc = [t \in Threads |-> "unstarted"]

InitMap ==
  /\ ProgramOff
  /\ \E c1 \in FirstChannels :
       \/ channels = <<c1>>
       \/ \E c2 \in SecondChannels : channels = <<c1, c2>>
  /\ mailboxes \in [StoreNames -> UNION {MailboxLists(st) : st \in StoreNames}]
  /\ \A st \in StoreNames : mailboxes[st] \in MailboxLists(st)
  /\ py37 \in BOOLEAN
  /\ syncmap = <<>>
  /\ raised = ""
  /\ chidx = 1
  /\ syncall = {}
  /\ box = <<>>
  /\ selected = FALSE
  /\ mpc = "get_channels"

NextMap == GetChannels \/ SyncmapChannel \/ MakeSyncAll

SpecMap == InitMap /\ [][NextMap]_vars

\* ----------------------------------------------- pattern selection harness
MaxPattern == 2       \* characters of a pattern, after its '!'
MaxPatterns == 2      \* patterns of a channel
MaxName == 3          \* characters of a logical mailbox name

PatternChars == {"a", "/", "*", "%"}
NameChars == {"a", "/"}
SeqsUpTo(S, n) == UNION {[1..k -> S] : k \in 1..n}
PatternSet ==
  SeqsUpTo(PatternChars, MaxPattern)
    \cup {<<"!">> \o p : p \in SeqsUpTo(PatternChars, MaxPattern)}
Names == SeqsUpTo(NameChars, MaxName)

InitSelect ==
  /\ ProgramOff
  /\ \E ps \in SeqsUpTo(PatternSet, MaxPatterns) :
       channels = <<Channel("c1", "I2", "M1", "regexps", ps, <<>>)>>
  /\ mailboxes = [st \in StoreNames |-> <<>>]
  /\ py37 \in BOOLEAN
  /\ syncmap = <<>>
  /\ raised = ""
  /\ chidx = 1
  /\ syncall = {}
  /\ box = <<>>
  /\ selected = FALSE
  /\ mpc = "get_channels"

NextSelect == GetChannels \/ \E str \in Names : MatchBox(str)

SpecSelect == InitSelect /\ [][NextSelect]_vars

\* ------------------------------------------------------ ownership harness
\* The program from its start to the end of close_all, with two watched
\* mailboxes of one store; a watcher that entered IDLE stays there.
\* populate_stores_w_mailboxes passes useimaps where the port is expected:
\* its key is the watchers' key ("k1") only if the two values are equal.
InitOwn ==
  /\ maildirs = {"m1", "m2"}
  /\ InitShared
  /\ pending = [m \in Maildirs |-> "off"]
  /\ MapOff
  /\ connected = [w \in Watchers |-> FALSE]
  /\ busy = [k \in Keys |-> <<>>]
  /\ con_key_map = [s \in Sessions |-> NoKey]
  /\ nsess = 0
  /\ con = [t \in Threads |-> NoCon]
  /\ watched = Watchers
  /\ todo \in {{k} : k \in Keys}
  /\ pc = [t \in Threads |-> IF t = "main" THEN "populate" ELSE "unstarted"]

OwnMainStep ==
  \/ Populate
  \/ GocLock("main")
  \/ Connect("main")
  \/ GocAdd("main")
  \/ Enumerate
  \/ Release("main")
  \/ StartWatching
  \/ PutSyncAll
  \/ TaskLoopEnds
  \/ CloseAll
  \/ CloseNext
  \/ CloseStep("main")

OwnWatcherStep(w) ==
  \/ MakeCon(w)
  \/ GocLock(w)
  \/ Connect(w)
  \/ GocAdd(w)
  \/ RcKey(w)
  \/ RcCommit(w)
  \/ Watch(w)
  \/ Select(w)
  \/ HandleException(w)
  \/ Wake(w)

NextOwn ==
  \/ OwnMainStep
  \/ \E w \in Watchers : pc["main"] # "exit" /\ OwnWatcherStep(w)

SpecOwn == InitOwn /\ [][NextOwn]_vars

\* ---------------------------------------------------------- the program
Init ==
  /\ maildirs = {"m1", "m2"}
  /\ InitShared
  /\ pending = [m \in Maildirs |-> "off"]
  /\ MapOff
  /\ connected = [w \in Watchers |-> FALSE]
  /\ busy = [k \in Keys |-> <<>>]
  /\ con_key_map = [s \in Sessions |-> NoKey]
  /\ nsess = 0
  /\ con = [t \in Threads |-> NoCon]
  /\ watched = {"w1"}
  /\ todo = {StoreKey(w) : w \in watched}
  /\ pc = [t \in Threads |-> IF t = "main" THEN "populate" ELSE "unstarted"]

MainStep ==
  \/ Populate
  \/ GocLock("main")
  \/ Connect("main")
  \/ GocAdd("main")
  \/ Enumerate
  \/ Release("main")
  \/ StartWatching
  \/ PutSyncAll
  \/ TaskGet
  \/ SyncDone
  \/ TaskLoopEnds
  \/ CloseAll
  \/ CloseNext
  \/ CloseStep("main")

\* the watchers are daemon threads: they end with the main thread
Next ==
  \/ MainStep
  \/ \E w \in Watchers : pc["main"] # "exit" /\ WatcherStep(w)

Spec == Init /\ [][Next]_vars

\* ------------------------------------------------------------- claims
InList(s, lists) == \E k \in Keys : InSeq(s, lists[k])
Membership(s) == <<con_key_map[s],
                   [k \in Keys |-> Occurrences(s, busy[k])],
                   [k \in Keys |-> Occurrences(s, released[k])]>>

\* C1: every session of the session-to-key map, with key k, is in exactly
\* one of busy[k] and released[k] (once, and in no list of another key), and
\* a session absent from the map is in no busy or released list.
C1_PoolInvariant ==
  \A s \in Sessions :
    IF con_key_map[s] # NoKey
    THEN /\ Occurrences(s, busy[con_key_map[s]])
              + Occurrences(s, released[con_key_map[s]]) = 1
         /\ \A k \in Keys \ {con_key_map[s]} :
              ~InSeq(s, busy[k]) /\ ~InSeq(s, released[k])
    ELSE ~InList(s, busy) /\ ~InList(s, released)

\* a busy session and a released one of the same key, after a reconnect
\* replaced a third session and a close returned
C1_Witness ==
  /\ pc["main"] = "returned"
  /\ op = "close"
  /\ \E a, b, c \in Sessions :
       /\ Registered(a) /\ InList(a, busy)
       /\ Registered(b) /\ InList(b, released)
       /\ con_key_map[a] = con_key_map[b]
       /\ ~Registered(c) /\ terminating[c]

\* C2: release(s) moves s itself, and no other session, from busy[k] to
\* released[k], and the next get_or_create_connection for k returns s
\* without opening a connection.
C2_ReleaseThenGet ==
  [][/\ (pc["main"] = "release" /\ Registered(con["main"])
           /\ InSeq(con["main"], busy[con_key_map[con["main"]]])) =>
          LET s == con["main"]
              k == con_key_map[s]
          IN /\ pc'["main"] = "returned"
             /\ released'[k] = Append(released[k], s)
             /\ busy'[k] = ListRemove(busy[k], s)
     /\ (pc["main"] = "goc_lock" /\ lastReleased # NoCon) =>
          /\ pc'["main"] = "returned"
          /\ con'["main"] = lastReleased
          /\ nsess' = nsess]_vars

\* C3: a successful reconnect(s) returns a session other than s, busy under
\* the key s had; s is in no structure of the pool; count() is what it was
\* when reconnect was called.
C3_ReconnectIdentity ==
  [][/\ pc["main"] \in {"rc_key", "rc_connect"} => Count' = Count
     /\ (pc["main"] = "rc_commit" /\ pc'["main"] = "returned") =>
          LET s == con["main"]
              n == con'["main"]
          IN /\ n # s
             /\ con_key_map'[n] = con_key_map[s]
             /\ Occurrences(n, busy'[con_key_map[s]]) = 1
             /\ con_key_map'[s] = NoKey
             /\ \A k \in Keys : ~InSeq(s, busy'[k]) /\ ~InSeq(s, released'[k])
             /\ Count' = Count]_vars

\* a reconnect of a released session returned, next to a busy session of
\* the same key
C3_Witness ==
  /\ pc["main"] = "returned"
  /\ op = "reconnect"
  /\ Registered(con["main"])
  /\ Len(busy[con_key_map[con["main"]]]) = 2
  /\ released = [k \in Keys |-> <<>>]
  /\ nsess = 3

\* C4: close(s) does not let an error of DONE, LOGOUT or shutdown out; when
\* it returns s is terminating and in no structure of the pool, and every
\* other session is where it was.
C4_Close ==
  [][/\ pc["main"] \in {"cl_flag", "cl_done", "cl_logout"} =>
          /\ pc'["main"] \in {"cl_done", "cl_logout", "cl_remove"}
          /\ UNCHANGED poolVars
     /\ (pc["main"] = "cl_remove" /\ Registered(con["main"])) =>
          LET s == con["main"]
          IN /\ pc'["main"] = "returned"
             /\ terminating'[s]
             /\ con_key_map'[s] = NoKey
             /\ \A k \in Keys : ~InSeq(s, busy'[k]) /\ ~InSeq(s, released'[k])
             /\ \A o \in Sessions \ {s} : Membership(o)' = Membership(o)
             /\ \A k \in Keys :
                  /\ busy'[k] = SelectSeq(busy[k], LAMBDA x : x # s)
                  /\ released'[k] = SelectSeq(released[k], LAMBDA x : x # s)]_vars

\* close returned for an idling session whose DONE could not be sent, with
\* another session of the same key still in the pool
C4_Witness ==
  /\ pc["main"] = "returned"
  /\ op = "close"
  /\ con["main"] # NoCon
  /\ terminating[con["main"]]
  /\ ~Registered(con["main"])
  /\ idling[con["main"]]
  /\ sent[con["main"]] = <<>>
  /\ \E k \in Keys : busy[k] # <<>> /\ released[k] # <<>>

\* C5: a tagged OK that completes an IDLE iteration is followed by the
\* callback exactly when an EXISTS line was received in that iteration.
C5_FireLaw ==
  [][\A w \in Watchers :
       (pc[w] = "ok_read" /\ pc'[w] \in {"fire", "idle_chk"}) =>
         (pc'[w] = "fire" <=> seen[w])]_vars

\* C6: when the '+' continuation is read after an EXISTS line of the same
\* iteration, the driver goes to DONE without waiting for a change, and the
\* tagged OK of that iteration is followed by the callback.
C6_ExistsBeforeContinuation ==
  [][\A w \in Watchers :
       /\ (pc[w] = "cont_read" /\ seen[w]
             /\ pc'[w] \notin {"cont_read", "cont_chk", "except"}) =>
            pc'[w] = "done_chk"
       /\ (pc[w] = "ok_read" /\ seen[w] /\ ~timedout[w]
             /\ pc'[w] \in {"fire", "idle_chk"}) =>
            pc'[w] = "fire"]_vars

\* C7: a socket timeout of the wait for a change raises nothing; from then
\* on, while the session is not terminating, the watcher sends DONE, goes
\* from the tagged OK to a new IDLE with a greater tag on the same session,
\* and puts nothing in the task queue.
C7_RefreshOnTimeout ==
  [][\A w \in Watchers :
       /\ (pc[w] = "chg_read" /\ ~timedout[w] /\ timedout'[w]) =>
            /\ pc'[w] = "done_chk"
            /\ exc'[w] = exc[w]
            /\ tasks' = tasks
       /\ (timedout[w] /\ ~terminating[con[w]] /\ pc'[w] # pc[w]) =>
            /\ tasks' = tasks
            /\ con'[w] = con[w]
            /\ pc[w] = "done_chk" => pc'[w] = "done_send"
            /\ (pc[w] = "done_send" /\ pc'[w] # "except") =>
                 /\ pc'[w] = "done_set"
                 /\ sent'[con[w]] = <<"DONE", 0>>
            /\ (pc[w] = "ok_read" /\ pc'[w] \notin {"ok_chk", "except"}) =>
                 pc'[w] = "idle_chk"
            /\ pc[w] = "idle_chk" =>
                 /\ pc'[w] = "idle_send"
                 /\ tag'[w] > tag[w]
            /\ (pc[w] = "idle_send" /\ pc'[w] # "except") =>
                 /\ pc'[w] = "idle_set"
                 /\ sent'[con[w]] = <<"IDLE", tag[w]>>]_vars

\* the second IDLE of a session is out after a wait that timed out with no
\* EXISTS line; the task queue is empty
C7_Witness ==
  /\ pc["w1"] = "idle_set"
  /\ timedout["w1"] /\ ~seen["w1"]
  /\ ~terminating[con["w1"]]
  /\ sent[con["w1"]] = <<"IDLE", 2>>
  /\ tasks = <<>>

\* after close set terminating on the session of a watcher blocked in a
\* read of the two wait phases: no callback, no IDLE sent
StoppedQuiet ==
  [][\A w \in Watchers :
       stopped[w] =>
         /\ tasks' = tasks
         /\ pc'[w] \notin {"idle_send", "idle_set", "fire"}
         /\ sent'[con[w]] # sent[con[w]] => sent'[con[w]][1] # "IDLE"]_vars

ReconnectSteps(w) ==
  /\ (pc[w] = "makecon" /\ con[w] # NoCon /\ pc'[w] # pc[w]) =>
       pc'[w] = "rc_key"
  /\ (pc[w] \in {"rc_key", "rc_connect"} /\ pc'[w] # pc[w]) =>
       /\ Count' = Count
       /\ tasks' = tasks
  /\ (pc[w] = "rc_commit" /\ pc'[w] # pc[w] /\ pc'[w] # "except") =>
       LET s == con[w]
           n == con'[w]
       IN /\ pc'[w] = "watch"
          /\ n # s
          /\ con_key_map'[n] = con_key_map[s]
          /\ InSeq(n, busy'[con_key_map[s]])
          /\ con_key_map'[s] = NoKey
          /\ Count' = Count
          /\ tasks' = tasks

\* watch() raised abort with 'EOF' on a session that is not terminating
EOFInWatch(w) ==
  /\ pc[w] = "except"
  /\ exc[w] = "abortEOF"
  /\ connected[w]
  /\ con[w] # NoCon
  /\ ~terminating[con[w]]
  /\ pc'[w] # pc[w]

NetworkErrors == {"socket.error", "IMAPTimeout", "abort(socket error)"}

\* C10: after a network error of a connection attempt or of watch(), on a
\* session that is not terminating, the watcher enqueues no ErrorTask and
\* goes on to another connection attempt, after a sleep when the error was
\* that of a connection attempt.
C10_NetworkErrorsTransient ==
  [][\A w \in Watchers :
       (/\ pc[w] = "except"
        /\ exc[w] \in NetworkErrors
        /\ con[w] = NoCon \/ ~terminating[con[w]]
        /\ pc'[w] # pc[w]) =>
         /\ tasks' = tasks
         /\ pc'[w] = IF connected[w] THEN "makecon" ELSE "sleeping"]_vars

\* C11: after a protocol abort out of watch() (no IDLE capability, NO or
\* BAD or a tagged line instead of the continuation, the IDLE tag completed
\* with a status other than OK) on a session that is not terminating, the
\* watcher enqueues one ErrorTask and ends; the dispatcher, dequeuing an
\* ErrorTask, raises SystemExit(1), and no sync command starts after that.
C11_FatalProtocolErrors ==
  [][/\ \A w \in Watchers :
          (/\ pc[w] = "except"
           /\ exc[w] \in ProtocolAborts
           /\ connected[w]
           /\ ~terminating[con[w]]
           /\ pc'[w] # pc[w]) =>
            /\ tasks' = Append(tasks, ErrorTask(w))
            /\ pc'[w] = "finished"
     /\ (/\ pc["main"] = "task_loop"
         /\ Len(tasks') < Len(tasks)
         /\ Head(tasks).type = "ErrorTask") =>
          /\ sysexit' = "1"
          /\ pc'["main"] = "close_all"
     /\ sysexit # "" => (pc'["main"] # "sync" /\ running' = running)]_vars

\* C12: once close has marked a watcher's session terminating, no step of
\* that watcher enqueues an ErrorTask, opens a connection or takes another
\* session.
C12_SilentTermination ==
  [][\A w \in Watchers :
       (con[w] # NoCon /\ terminating[con[w]] /\ pc'[w] # pc[w]) =>
         /\ tasks' = tasks
         /\ nsess' = nsess
         /\ con'[w] = con[w]]_vars


\* the dispatcher takes a task off the queue
Dequeue ==
  /\ tasks # <<>>
  /\ tasks' # tasks
  /\ Len(tasks') <= Len(tasks)

\* C13: tasks leave the queue at its head, one at a time and only while no
\* sync command runs; a SyncTask that leaves starts one sync command, for
\* its own tuples, and a sync command starts in no other way; a callback of
\* a watcher adds its SyncTask at the end of the queue, whatever waits there.
C13_DispatchOrder ==
  [][/\ tasks' # tasks =>
          \/ \E x \in {tasks'[i] : i \in DOMAIN tasks'} : tasks' = Append(tasks, x)
          \/ /\ Dequeue
             /\ pc["main"] = "task_loop" /\ running = <<>>
             /\ \/ tasks' = Tail(tasks)
                \/ /\ Head(tasks).type = "LocalMailTask"
                   /\ Len(tasks') = Len(tasks)
                   /\ Front(tasks') = Tail(tasks)
             /\ Head(tasks).type = "SyncTask" =>
                  (pc'["main"] = "sync" /\ running' = Head(tasks).pairs)
     /\ (running' # running /\ running' # <<>>) =>
          (Dequeue /\ Head(tasks).type = "SyncTask")
     /\ (running' # running /\ running' = <<>>) => pc["main"] = "sync"
     /\ pc["main"] = "sync" <=> running # <<>>
     /\ \A w \in Watchers :
          (pc[w] = "fire" /\ pc'[w] # pc[w]) =>
            tasks' = Append(tasks, SyncTask(w, <<WatchedEndpoint(w)>>))]_vars

\* the sync command runs for a task of w1; behind it wait another task of
\* w1 for the same mailbox and a task of w2 for the same channel
C13_Witness ==
  /\ pc["main"] = "sync"
  /\ running = <<"i1">>
  /\ tasks = <<SyncTask("w1", <<"i1">>), SyncTask("w2", <<"i2">>)>>

\* C14: a LocalMailTask handled when no listing changed since the
\* LocalMailTask before it was handled puts no SyncTask, whatever SyncTasks
\* were handled in between.
C14_DircacheIdempotence ==
  lastScan[1] \in {"quiet", "synced"} => ~lastScan[2]

\* a LocalMailTask was handled after SyncTasks and no change of a listing,
\* and put nothing
C14_Witness ==
  /\ lastScan = <<"synced", FALSE>>
  /\ tasks = <<>>

\* C15: a LocalMailTask puts exactly one SyncTask, of the partner tuples of
\* the Maildir endpoints whose listing differs from the cached one (or has
\* none cached), each once, when there is such an endpoint, and none when
\* there is not; it caches the listing of every Maildir endpoint.
C15_LocalChangeDetection ==
  [][(Dequeue /\ Head(tasks).type = "LocalMailTask") =>
       LET changed == {m \in Maildirs : dircache[m] # listing[m]}
       IN /\ dircache' = [m \in Maildirs |-> listing[m]]
          /\ IF changed = {}
             THEN tasks' = Tail(tasks)
             ELSE /\ Len(tasks') = Len(tasks)
                  /\ Front(tasks') = Tail(tasks)
                  /\ Last(tasks').type = "SyncTask"
                  /\ Len(Last(tasks').pairs) = Cardinality(changed)
                  /\ {Last(tasks').pairs[i] : i \in DOMAIN Last(tasks').pairs}
                       = {"i1" : m \in changed \cap {"m1"}}
                           \cup {"i2" : m \in changed \cap {"m2"}}]_vars

\* a LocalMailTask found the listing of m2 changed and that of m1 not: the
\* SyncTask it put holds the IMAP partner of m2 alone
C15_Witness ==
  /\ lastScan = <<"changed", TRUE>>
  /\ dircache = listing
  /\ tasks = <<SyncTask("main", <<"i2">>)>>

\* the other side of the pair of endpoint e: syncmap[e][:3]
Other(e) == SubSeq(syncmap[e], 1, 3)
IsImap(e) == Stores[e[1]].kind = "imapstore"

\* C16: the tuples of the SyncTask built at startup are endpoints of the
\* sync map and hold exactly one endpoint of every pair, the IMAP one when
\* the pair has an IMAP endpoint.
C16_SyncAll ==
  mpc = "sync_all" =>
    /\ syncall \subseteq DOMAIN syncmap
    /\ \A e \in DOMAIN syncmap :
         /\ (e \in syncall) # (Other(e) \in syncall)
         /\ (e \in syncall /\ IsImap(Other(e))) => IsImap(e)

\* C17: in the map get_syncmap returns, the partner of the partner of every
\* endpoint is the endpoint itself.
C17_Symmetry ==
  mpc = "sync_all" =>
    \A e \in DOMAIN syncmap :
      /\ Other(e) \in DOMAIN syncmap
      /\ SubSeq(syncmap[Other(e)], 1, 3) = e

\* the logical mailboxes one side of a channel selects
LogicalBoxes(channel, stype) ==
  {SidePairs(channel, stype)[i].tuple[2] :
     i \in DOMAIN SidePairs(channel, stype)}

\* C18: get_syncmap raises nothing but MailboxError, and in the map it
\* returns every logical mailbox a channel selects on either side is
\* selected on both and has exactly one endpoint in the master store and
\* one in the slave store, and no endpoint is paired with an endpoint of
\* its own store.
C18_Completeness ==
  /\ raised \in {"", "MailboxError"}
  /\ mpc = "sync_all" =>
       /\ \A i \in DOMAIN channels :
            \A b \in LogicalBoxes(channels[i], "master")
                       \cup LogicalBoxes(channels[i], "slave") :
              /\ b \in LogicalBoxes(channels[i], "master")
              /\ b \in LogicalBoxes(channels[i], "slave")
              /\ \A st \in {channels[i].master, channels[i].slave} :
                   Cardinality({e \in DOMAIN syncmap :
                                  e[1] = st /\ e[2] = b}) = 1
       /\ \A e \in DOMAIN syncmap : syncmap[e][1] # e[1]

\* the matching the patterns are meant to have: '*' stands for any run of
\* characters, '%' for any run of characters other than '/'
RECURSIVE GlobMatch(_, _)
GlobMatch(pattern, str) ==
  IF pattern = <<>> THEN str = <<>>
  ELSE CASE Head(pattern) = "*" ->
              \E k \in 0..Len(str) :
                GlobMatch(Tail(pattern), SubSeq(str, k + 1, Len(str)))
         [] Head(pattern) = "%" ->
              \E k \in 0..Len(str) :
                /\ \A i \in 1..k : str[i] # "/"
                /\ GlobMatch(Tail(pattern), SubSeq(str, k + 1, Len(str)))
         [] OTHER ->
              /\ str # <<>>
              /\ Head(str) = Head(pattern)
              /\ GlobMatch(Tail(pattern), Tail(str))

Negated(pattern) == Head(pattern) = "!"
Body(pattern) == IF Negated(pattern) THEN Tail(pattern) ELSE pattern

\* the last pattern that matches str exists and has no leading '!'
LastMatchSelects(patterns, str) ==
  LET matching == {i \in DOMAIN patterns : GlobMatch(Body(patterns[i]), str)}
  IN /\ matching # {}
     /\ ~Negated(patterns[CHOOSE i \in matching : \A j \in matching : j <= i])

\* C19: a logical mailbox name is selected exactly when the last pattern of
\* the channel that matches it has no leading '!'.
C19_PatternSelection ==
  mpc = "matched" =>
    (selected <=> LastMatchSelects(channels[1].patterns, box))


\* the session thread t holds: the one populate_stores_w_mailboxes got and
\* has not released yet, or the one makecon returned last to a watcher,
\* unless it was closed
Holds(t) ==
  IF t = "main"
  THEN IF pc["main"] \in {"enumerate", "release"} THEN con["main"] ELSE NoCon
  ELSE IF con[t] # NoCon /\ Registered(con[t]) /\ ~terminating[con[t]]
       THEN con[t] ELSE NoCon

\* C20: no session is held by two threads at the same time.
C20_ExclusiveOwnership ==
  \A t1, t2 \in Threads :
    (t1 # t2 /\ Holds(t1) # NoCon) => Holds(t1) # Holds(t2)

\* w1 idles on the session the enumeration released, w2 on a session it got
\* from reconnect after its first one failed
C20_Witness ==
  /\ pc["w1"] = "idle_chk" /\ Holds("w1") = 1
  /\ pc["w2"] = "idle_chk" /\ Holds("w2") = 3
  /\ ~Registered(2)

\* the sessions registered under key k
CountKey(k) == Cardinality({s \in Sessions : con_key_map[s] = k})

\* C21: while a thread is inside reconnect, past the lookup of the key, at
\* least one session is registered under that key.
C21_ReconnectOrdering ==
  \A w \in Watchers :
    pc[w] \in {"rc_connect", "rc_commit"} => CountKey(key[w]) >= 1

\* C22: on a session the driver sends IDLE only when no IDLE of it is
\* outstanding there (none was sent, or the tagged OK of the last one was
\* received), sends DONE only for an IDLE it sent and once, receives the
\* tagged OK only after that DONE and with the tag of that IDLE, and runs
\* the callback only after that tagged OK and before the next IDLE.
C22_IdleOrdering ==
  [][\A w \in Watchers :
       LET s == con[w]
       IN /\ (pc[w] = "idle_send" /\ pc'[w] = "idle_set") =>
               proto[s][1] \in {"", "OK"}
          /\ (pc[w] = "done_send" /\ pc'[w] = "done_set") =>
               proto[s][1] = "IDLE"
          /\ (pc[w] = "ok_read" /\ pc'[w] \in {"fire", "idle_chk"}) =>
               (proto[s] = <<"DONE", tag[w]>> /\ sent[s][1] # "IDLE")
          /\ (pc[w] = "fire" /\ pc'[w] # "fire") =>
               (proto[s][1] = "OK" /\ pc'[w] = "idle_chk"
                /\ proto'[s] = proto[s])]_vars

\* the driver has sent its second IDLE on the session, after the callback
\* of the first iteration ran
C22_Witness ==
  /\ pc["w1"] = "idle_set"
  /\ proto[con["w1"]] = <<"IDLE", 2>>
  /\ tasks = <<SyncTask("w1", <<"i1">>)>>

\* C23: a driver that finds the session terminating at a send or a receive
\* writes nothing more to the socket and ends the drain with watch
\* returning, whatever the drain's reads give.
C23_TerminationCheck ==
  [][\A w \in Watchers :
       (pc[w] \in {"drain", "drain_chg"} /\ pc'[w] # pc[w]) =>
         /\ pc'[w] = "finished"
         /\ how'[w] = "returned"
         /\ sent' = sent]_vars


\* C24: when the synchronizer returns successfully, every Maildir endpoint
\* of the pairs it synced (the tuple's own endpoint and its partner) has a
\* dircache entry equal to its current cur/ listing; when it fails,
\* dircache is left as it was.
C24_PostSyncRefresh ==
  [][(pc["main"] = "sync" /\ pc'["main"] # "sync") =>
       IF pc'["main"] = "task_loop"
       THEN \A i \in DOMAIN running :
              \A e \in {running[i], Partner(running[i])} :
                e \in Maildirs => dircache'[e] = listing'[e]
       ELSE dircache' = dircache]_vars

Ended == {"finished", "crashed"}

\* C25: a watcher thread ends only with watch having returned, or with its
\* session marked terminating, or with the step that ends it enqueuing one
\* ErrorTask of that watcher.
C25_ExitDiscipline ==
  [][\A w \in Watchers :
       (pc[w] \notin Ended /\ pc'[w] \in Ended) =>
         \/ how'[w] = "returned"
         \/ con[w] # NoCon /\ terminating[con[w]]
         \/ tasks' = Append(tasks, ErrorTask(w))]_vars

\* C26: close attempts DONE on a session exactly when the last command its
\* driver has written is an IDLE with no DONE after it; no step writes DONE
\* unless an IDLE is outstanding with no DONE written for it yet, and no
\* step writes LOGOUT while an IDLE is outstanding with no DONE written.
C26_CloseDoneIffIdle ==
  [][/\ \A t \in Threads :
          (pc[t] = "cl_done" /\ pc'[t] # "cl_done") =>
            (idling[con[t]] <=> proto[con[t]][1] = "IDLE")
     /\ \A s \in Sessions :
          /\ (sent'[s] # sent[s] /\ sent'[s][1] = "DONE") =>
               (proto[s][1] = "IDLE" /\ sent[s][1] # "DONE")
          /\ (sent'[s] # sent[s] /\ sent'[s][1] = "LOGOUT") =>
               (proto[s][1] # "IDLE" \/ sent[s][1] = "DONE")]_vars

InReconnect(w) == pc[w] \in {"rc_key", "rc_connect", "rc_commit"}
InPool(w) == InReconnect(w) \/ pc[w] \in {"goc_lock", "goc_connect", "goc_add"}

\* C27: reconnect never ends with the KeyError of a session that close has
\* removed, and when the main thread has left close_all and no watcher is
\* inside a pool method, no session is registered in the pool: count() = 0.
C27_ShutdownLeavesNothing ==
  [][/\ \A w \in Watchers :
          (InReconnect(w) /\ ~InReconnect(w)') => exc'[w] # "KeyError"
     /\ (pc'["main"] = "exit" /\ \A w \in Watchers : ~InPool(w)') =>
          \A s \in Sessions : con_key_map'[s] = NoKey]_vars

\* task_loop has not ended: no sync command has failed, no ErrorTask was
\* handled, no interrupt came
Dispatching == sysexit = ""

\* C28: as long as task_loop goes on and sync commands succeed, every change
\* of the cur/ listing of a Maildir is followed by the start of a sync
\* command that covers the Maildir's pair, also a change made while a sync
\* command for the pair runs.
C28_NoLostLocalChange ==
  []Dispatching =>
    \A m \in {"m1", "m2"} : (pending[m] = "yes") ~> (pending[m] = "no")
=============================================================================
